---- MODULE Spec2Model ----
(***************************************************************************)
(* A model of src/bot.py: a Discord bot that polls one RSS feed on a       *)
(* tasks.loop, filters the entries on a server name, remembers the         *)
(* identities it has seen in the list seen_entry_guids, and posts the link *)
(* of every new matching entry (and its highest resource stat).            *)
(*                                                                         *)
(* Text is modelled as a tuple of one-character strings, so that           *)
(* str.lower(), the `in` substring test and the regular expression of      *)
(* parse_resource_values are computed character by character.              *)
(* Python's None is NoneStat (the empty text) for a stat code and          *)
(* NoneValue for a number; an absent guid is NoGuid and an absent time     *)
(* struct is NoTime.                                                       *)
(***************************************************************************)
EXTENDS Integers, Sequences, FiniteSets, TLC

VARIABLES
    DISCORD_CHANNEL_ID,   \* module global, 0 when the environment gives none
    seen_entry_guids,     \* module global: the list of seen identities
    pc,                   \* where the loop task of fetch_rss_feed_task stands
    feed,                 \* feed.entries of the latest fetch that was parsed
    new_entries_to_post,  \* the local list of the running (or last) tick
    idx,                  \* position in sorted(new_entries_to_post) being posted
    seen_before,          \* history: seen_entry_guids when the latest fetch returned
    seen_recorded,        \* history: seen_entry_guids right after line 123
    attempts,             \* history: indices of new_entries_to_post whose link was sent, in order
    outcomes,             \* history: the outcome of each of those attempts
    tick_end,             \* history: how the latest tick ended
    repeat,               \* the feed at the server is as the tick before, which ran to line 163, fetched it
    ever_staged,          \* history: identities staged by earlier ticks
    sweeps,               \* executions of fetch_rss_feed_task that have begun and not ended
    start_refused,        \* history: the latest step was an on_ready that fired while the fetch was awaited
    entry,                \* argument of a stand-alone call of parse_resource_values
    parsed                \* its return value, <<>> before the call

vars == <<DISCORD_CHANNEL_ID, seen_entry_guids, pc, feed, new_entries_to_post, idx,
          seen_before, seen_recorded, attempts, outcomes, tick_end, repeat,
          ever_staged, sweeps, start_refused, entry, parsed>>

schedVars == <<DISCORD_CHANNEL_ID, seen_entry_guids, pc, feed, new_entries_to_post, idx,
               seen_before, seen_recorded, attempts, outcomes, tick_end, repeat,
               ever_staged, sweeps, start_refused>>

parseVars == <<entry, parsed>>

-----------------------------------------------------------------------------
(* Bounds of the model *)

\* Capacity of the seen list. The source sets 200 (src/bot.py line 17); the
\* model scales it down so that eviction happens within a few ticks.
MAX_SEEN_ENTRIES == 2

\* Longest feed a fetch returns: one more than the capacity, so that a single
\* fetch can overflow the seen list.
MaxFeedLen == MAX_SEEN_ENTRIES + 1

\* The catch-up batch size of spec section 4.6 ("a small constant, e.g. 5").
\* The source has no such constant.
K == 2

\* Longest text, in pieces, handed to a stand-alone parse_resource_values.
MaxPieces == 3

-----------------------------------------------------------------------------
(* Text *)

UpperSeq == <<"A","B","C","D","E","F","G","H","I","J","K","L","M",
              "N","O","P","Q","R","S","T","U","V","W","X","Y","Z">>
LowerSeq == <<"a","b","c","d","e","f","g","h","i","j","k","l","m",
              "n","o","p","q","r","s","t","u","v","w","x","y","z">>
DigitSeq == <<"0","1","2","3","4","5","6","7","8","9">>

IsUpper(c) == \E i \in 1..26 : UpperSeq[i] = c
IsDigit(c) == \E i \in 1..10 : DigitSeq[i] = c
IsSpace(c) == c \in {" ", "\t", "\n"}
DigitVal(c) == (CHOOSE i \in 1..10 : DigitSeq[i] = c) - 1

\* str.lower() on one character and on a text
LowerChar(c) == IF IsUpper(c) THEN LowerSeq[CHOOSE i \in 1..26 : UpperSeq[i] = c] ELSE c
Lower(s) == [i \in 1..Len(s) |-> LowerChar(s[i])]

\* the `in` operator on str: sub occurs in s as a contiguous slice
Contains(sub, s) ==
    \E k \in 0..(Len(s) - Len(sub)) : \A i \in 1..Len(sub) : s[k + i] = sub[i]

\* int() of a run of decimal digits
RECURSIVE ToInt(_)
ToInt(ds) == IF ds = <<>> THEN 0
             ELSE 10 * ToInt(SubSeq(ds, 1, Len(ds) - 1)) + DigitVal(ds[Len(ds)])

-----------------------------------------------------------------------------
(* parse_resource_values, lines 32-76 *)

NoneStat == <<>>
NoneValue == 0 - 1

\* first position at or after p whose character fails the class test (greedy +, *)
RECURSIVE SkipSep(_, _)
SkipSep(s, p) == IF p <= Len(s) /\ (IsSpace(s[p]) \/ s[p] = ":") THEN SkipSep(s, p + 1) ELSE p
RECURSIVE SkipDigits(_, _)
SkipDigits(s, p) == IF p <= Len(s) /\ IsDigit(s[p]) THEN SkipDigits(s, p + 1) ELSE p
RECURSIVE SkipSpace(_, _)
SkipSpace(s, p) == IF p <= Len(s) /\ IsSpace(s[p]) THEN SkipSpace(s, p + 1) ELSE p

\* the optional group (?:\s*\(\d+%\))? tried at p: the position after it, or p
SuffixEnd(s, p) ==
    LET a == SkipSpace(s, p)
        b == IF a <= Len(s) /\ s[a] = "(" THEN SkipDigits(s, a + 1) ELSE 0
    IN IF a <= Len(s) /\ s[a] = "(" /\ b > a + 1
          /\ b + 1 <= Len(s) /\ s[b] = "%" /\ s[b + 1] = ")"
       THEN b + 2 ELSE p

\* the pattern ([A-Z]{2})[\s:]+(\d+)(?:\s*\(\d+%\))? tried at p:
\* <<stat, value_str, end>> or <<>> when it does not match there
MatchAt(s, p) ==
    IF p + 1 <= Len(s) /\ IsUpper(s[p]) /\ IsUpper(s[p + 1])
    THEN LET a == SkipSep(s, p + 2)
             b == SkipDigits(s, a)
         IN IF a > p + 2 /\ b > a
            THEN <<SubSeq(s, p, p + 1), SubSeq(s, a, b - 1), SuffixEnd(s, b)>>
            ELSE <<>>
    ELSE <<>>

\* re.findall(pattern, content_html): the non-overlapping matches, left to right
RECURSIVE FindAllFrom(_, _)
FindAllFrom(s, p) ==
    IF p > Len(s) THEN <<>>
    ELSE LET m == MatchAt(s, p)
         IN IF m = <<>> THEN FindAllFrom(s, p + 1)
            ELSE <<[stat |-> m[1], value_str |-> m[2]]>> \o FindAllFrom(s, m[3])

findall(s) == FindAllFrom(s, 1)

\* the loop of lines 61-69 over matches[i..]
RECURSIVE HighestFrom(_, _, _, _)
HighestFrom(matches, i, highest_stat, highest_value) ==
    IF i > Len(matches) THEN [stat |-> highest_stat, value |-> highest_value]
    ELSE LET value == ToInt(matches[i].value_str)
         IN IF value > highest_value
            THEN HighestFrom(matches, i + 1, matches[i].stat, value)
            ELSE HighestFrom(matches, i + 1, highest_stat, highest_value)

\* An entry has has_content (hasattr(entry, 'content') and the list is not
\* empty) and content (the 'value' of content[0]).
parse_resource_values(e) ==
    IF ~e.has_content THEN [stat |-> NoneStat, value |-> NoneValue]
    ELSE IF e.content = <<>> THEN [stat |-> NoneStat, value |-> NoneValue]
    ELSE LET matches == findall(e.content)
         IN IF matches = <<>> THEN [stat |-> NoneStat, value |-> NoneValue]
            ELSE HighestFrom(matches, 1, NoneStat, 0)

-----------------------------------------------------------------------------
(* Stand-alone calls of parse_resource_values *)

Pieces == { <<"O","Q"," ","5">>,
            <<"D","R",":"," ","7"," ","(","7","8","%",")">>,
            <<"P","E"," ","0">>,
            <<"C","R",":","0">>,
            <<"C","R"," ","5">>,
            <<" ">>,
            <<"x">>,
            <<"A","B","C"," ","1","2">>,
            <<"p","e"," ","9">> }

RECURSIVE TextsOf(_)
TextsOf(n) == IF n = 0 THEN {<<>>}
              ELSE TextsOf(n - 1) \cup {t \o q : t \in TextsOf(n - 1), q \in Pieces}

\* The entries parse_resource_values is called on. feedparser also gives an
\* entry its summary and its description, which the function never reads:
\* an entry without content text carries any short text in them, an entry
\* with content text carries a stat of its own in summary or nothing.
ParseEntries ==
    {[has_content |-> c, content |-> <<>>, summary |-> s, description |-> d] :
        c \in BOOLEAN, s \in TextsOf(1), d \in TextsOf(1)}
    \cup {[has_content |-> TRUE, content |-> t, summary |-> s, description |-> <<>>] :
            t \in TextsOf(MaxPieces), s \in {<<>>, <<"C","R"," ","5">>}}

CallParse ==
    /\ parsed = <<>>
    /\ parsed' = <<parse_resource_values(entry)>>
    /\ UNCHANGED entry

-----------------------------------------------------------------------------
(* Configuration and feed entries *)

TARGET_SERVER_NAME == <<"S","W","G"," ","I","n","f","i","n","i","t","y">>

NoGuid == 0    \* the entry has no guid: entry.get("guid", ...) falls to the default
NoTime == 0    \* published_parsed / updated_parsed is None
BadTime == 99  \* a time struct that datetime(...) rejects with ValueError

\* The entries the feed can hold. A guid or link is a number standing for the
\* string; a time struct is a number standing for its instant.
Items == <<
    [guid |-> 1, link |-> 1, title |-> <<"S","W","G"," ","I","n","f","i","n","i","t","y",":"," ","O","r","e">>,
     published_parsed |-> 2, updated_parsed |-> NoTime,
     has_content |-> TRUE, content |-> <<"O","Q"," ","5"," ","D","R",":"," ","7"," ","(","7","8","%",")">>],
    [guid |-> 2, link |-> 2, title |-> <<"n","e","w"," ","o","n"," ","s","w","g"," ","i","n","f","i","n","i","t","y">>,
     published_parsed |-> 1, updated_parsed |-> 2,
     has_content |-> FALSE, content |-> <<>>],
    [guid |-> NoGuid, link |-> 3, title |-> <<"S","W","G"," ","I","N","F","I","N","I","T","Y"," ","g","a","s">>,
     published_parsed |-> NoTime, updated_parsed |-> BadTime,
     has_content |-> TRUE, content |-> <<"P","E"," ","0">>],
    [guid |-> 4, link |-> 4, title |-> <<"S","W","G"," ","L","e","g","e","n","d","s",":"," ","O","r","e">>,
     published_parsed |-> 1, updated_parsed |-> NoTime,
     has_content |-> TRUE, content |-> <<"O","Q"," ","9">>],
    [guid |-> 1, link |-> 5, title |-> <<"[","S","W","G"," ","I","n","f","i","n","i","t","y","]">>,
     published_parsed |-> NoTime, updated_parsed |-> 1,
     has_content |-> TRUE, content |-> <<>>] >>

RECURSIVE FeedsOf(_)
FeedsOf(n) == IF n = 0 THEN {<<>>}
              ELSE FeedsOf(n - 1)
                   \cup {Append(f, Items[i]) : f \in FeedsOf(n - 1), i \in 1..Len(Items)}

Feeds == FeedsOf(MaxFeedLen)

Range(f) == {f[i] : i \in 1..Len(f)}

-----------------------------------------------------------------------------
(* fetch_rss_feed_task, lines 92-168 *)

\* entry.get("guid", entry.link), lines 115 and 120
identity(e) == IF e.guid # NoGuid THEN e.guid ELSE e.link

\* TARGET_SERVER_NAME.lower() in entry.title.lower(), line 117
title_matches(e) == Contains(Lower(TARGET_SERVER_NAME), Lower(e.title))

\* staging that keeps only the last K new matching entries
staged_last_K(entries, seen) ==
    LET all == SelectSeq(entries, LAMBDA e : identity(e) \notin Range(seen) /\ title_matches(e))
    IN IF Len(all) > K THEN SubSeq(all, Len(all) - K + 1, Len(all)) ELSE all

\* lines 113-118: the entries staged for posting, in feed order
staged_from(entries, seen) ==
    SelectSeq(entries, LAMBDA e : identity(e) \notin Range(seen) /\ title_matches(e))

\* recording that appends every identity, held or not
RECURSIVE record_every_from(_, _, _)
record_every_from(entries, i, seen) ==
    IF i > Len(entries) THEN seen
    ELSE record_every_from(entries, i + 1, Append(seen, identity(entries[i])))

\* lines 120-123 from entry i on: append every identity the list does not hold
RECURSIVE record_from(_, _, _)
record_from(entries, i, seen) ==
    IF i > Len(entries) THEN seen
    ELSE record_from(entries, i + 1,
                     IF identity(entries[i]) \notin Range(seen)
                     THEN Append(seen, identity(entries[i])) ELSE seen)

\* recording that marks only the entries staged for posting
record_staged_only(entries, seen) ==
    record_from(SelectSeq(entries, title_matches), 1, seen)

record_fetch(entries, seen) == record_from(entries, 1, seen)

\* trimming that keeps the oldest identities: seen_entry_guids[:MAX_SEEN_ENTRIES]
trim_keep_oldest(seen) ==
    IF Len(seen) > MAX_SEEN_ENTRIES THEN SubSeq(seen, 1, MAX_SEEN_ENTRIES) ELSE seen

\* lines 160-162: seen_entry_guids[-MAX_SEEN_ENTRIES:] when the list is too long
trim(seen) ==
    IF Len(seen) > MAX_SEEN_ENTRIES
    THEN SubSeq(seen, Len(seen) - MAX_SEEN_ENTRIES + 1, Len(seen))
    ELSE seen

\* get_sort_key, lines 128-135; datetime.min is 0
get_sort_key(e) ==
    LET dt_struct == IF e.published_parsed # NoTime THEN e.published_parsed
                     ELSE e.updated_parsed
    IN IF dt_struct # NoTime
       THEN (IF dt_struct = BadTime THEN 0 ELSE dt_struct)
       ELSE 0

\* sorted(new_entries_to_post, key=get_sort_key), line 137, as the indices of
\* the list in posting order: a stable sort, an index goes after every index
\* already placed whose key is not greater
\* an insertion that puts an index before the indices of equal key
RECURSIVE insert_before_equal(_, _, _)
insert_before_equal(order, i, entries) ==
    IF order = <<>> THEN <<i>>
    ELSE IF get_sort_key(entries[order[Len(order)]]) < get_sort_key(entries[i])
         THEN Append(order, i)
         ELSE Append(insert_before_equal(SubSeq(order, 1, Len(order) - 1), i, entries),
                     order[Len(order)])

RECURSIVE insert_sorted(_, _, _)
insert_sorted(order, i, entries) ==
    IF order = <<>> THEN <<i>>
    ELSE IF get_sort_key(entries[order[Len(order)]]) <= get_sort_key(entries[i])
         THEN Append(order, i)
         ELSE Append(insert_sorted(SubSeq(order, 1, Len(order) - 1), i, entries),
                     order[Len(order)])

RECURSIVE sorted_upto(_, _)
sorted_upto(entries, n) ==
    IF n = 0 THEN <<>> ELSE insert_sorted(sorted_upto(entries, n - 1), n, entries)

sorted(entries) == sorted_upto(entries, Len(entries))

\* line 148: `if highest_stat and highest_value`
has_highest(r) == r.stat # NoneStat /\ r.value # NoneValue /\ r.value # 0

\* the entry whose link is being sent
entry_to_post == new_entries_to_post[sorted(new_entries_to_post)[idx]]

\* A tick starts: lines 95-102 up to the await of the fetch. unchanged tells
\* whether the server still holds the entries the tick before fetched; feed
\* keeps them until the fetch returns only in that case.
begin_tick(unchanged) ==
    /\ pc' = "fetching"
    /\ ever_staged' = ever_staged \cup {identity(e) : e \in Range(new_entries_to_post)}
    /\ repeat' = (unchanged /\ tick_end = "done")
    /\ feed' = IF unchanged /\ tick_end = "done" THEN feed ELSE <<>>
    /\ tick_end' = "running"
    /\ new_entries_to_post' = <<>>
    /\ idx' = 0
    /\ seen_before' = seen_entry_guids
    /\ seen_recorded' = seen_entry_guids
    /\ attempts' = <<>>
    /\ outcomes' = <<>>
    /\ sweeps' = sweeps + 1
    /\ start_refused' = FALSE
    /\ UNCHANGED <<DISCORD_CHANNEL_ID, seen_entry_guids>>

\* the loop task exists and is not done
task_alive == pc \notin {"not_started", "failed"}

\* an on_ready whose start() launches a task whatever the state of the last one
on_ready_starts_again ==
    /\ DISCORD_CHANNEL_ID # 0
    /\ begin_tick(FALSE)
    /\ UNCHANGED parseVars

\* on_ready, lines 78-90; it runs on every READY of the gateway, also after a
\* reconnect. While no loop task is alive, start() creates the task,
\* before_loop returns at once (the bot is ready) and the first iteration
\* runs up to its fetch. While the task is alive, start() raises RuntimeError
\* and nothing is started, whether the task sleeps between two sweeps or is
\* suspended inside one: no variable of the program changes. Such a step is
\* a stuttering step of Spec; it is written out where start_refused records
\* it, when the sweep is suspended at its fetch.
on_ready ==
    /\ DISCORD_CHANNEL_ID # 0
    /\ IF task_alive
       THEN /\ pc = "fetching"
            /\ start_refused' = TRUE
            /\ UNCHANGED <<DISCORD_CHANNEL_ID, seen_entry_guids, pc, feed,
                           new_entries_to_post, idx, seen_before, seen_recorded,
                           attempts, outcomes, tick_end, repeat, ever_staged, sweeps>>
       ELSE begin_tick(FALSE)
    /\ UNCHANGED parseVars

\* tasks.loop wakes the task after CHECK_INTERVAL_SECONDS, line 92
next_iteration ==
    /\ pc = "sleeping"
    /\ IF DISCORD_CHANNEL_ID = 0
       THEN UNCHANGED schedVars
       ELSE \E unchanged \in BOOLEAN : begin_tick(unchanged)
    /\ UNCHANGED parseVars

\* lines 160-163 and the return to tasks.loop
end_of_tick(seen) ==
    /\ seen_entry_guids' = trim(seen)
    /\ pc' = "sleeping"
    /\ tick_end' = "done"
    /\ sweeps' = sweeps - 1

\* An exception reaches line 165: the name aiohttp is not imported (lines 1-8),
\* evaluating the except clause raises NameError, which leaves the coroutine;
\* tasks.loop does not retry on NameError and the loop task ends.
raise_out(where) ==
    /\ pc' = "failed"
    /\ tick_end' = where
    /\ sweeps' = sweeps - 1

\* a return before the filtering step: the task goes back to sleep
early_return(entries, why, seen, recorded) ==
    /\ feed' = entries
    /\ pc' = "sleeping"
    /\ tick_end' = why
    /\ sweeps' = sweeps - 1
    /\ seen_entry_guids' = seen
    /\ seen_recorded' = recorded
    /\ UNCHANGED <<new_entries_to_post, idx>>

\* a bozo return that first records the entries the parser recovered
parse_failed_records(entries) ==
    early_return(entries, "bozo", record_from(entries, 1, seen_entry_guids),
                 record_from(entries, 1, seen_entry_guids))

\* lines 104-106: feed.bozo is set, log and return; entries are those the
\* parser recovered all the same
parse_failed(entries) ==
    early_return(entries, "bozo", seen_entry_guids, seen_recorded)

\* a channel test placed after the recording of lines 120-123
channel_missing_after_record(entries) ==
    early_return(entries, "no_channel", record_from(entries, 1, seen_entry_guids),
                 record_from(entries, 1, seen_entry_guids))

\* lines 108-111: bot.get_channel returns None, log and return
channel_missing(entries) ==
    early_return(entries, "no_channel", seen_entry_guids, seen_recorded)

\* a tick that goes to its deliveries without the recording of lines 120-123
process_entries_unrecorded(entries) ==
    LET staged == staged_from(entries, seen_entry_guids)
        recorded == seen_entry_guids
    IN /\ feed' = entries
       /\ new_entries_to_post' = staged
       /\ seen_recorded' = recorded
       /\ IF staged = <<>>
          THEN /\ end_of_tick(recorded)
               /\ idx' = 0
          ELSE /\ seen_entry_guids' = recorded
               /\ pc' = "sending"
               /\ idx' = 1
               /\ tick_end' = "running"
               /\ UNCHANGED sweeps

\* lines 113-137: stage, record, and go to the first channel.send, or to the
\* end of the tick when nothing is staged
process_entries(entries) ==
    LET staged == staged_from(entries, seen_entry_guids)
        recorded == record_fetch(entries, seen_entry_guids)
    IN /\ feed' = entries
       /\ new_entries_to_post' = staged
       /\ seen_recorded' = recorded
       /\ IF staged = <<>>
          THEN /\ end_of_tick(recorded)
               /\ idx' = 0
          ELSE /\ seen_entry_guids' = recorded
               /\ pc' = "sending"
               /\ idx' = 1
               /\ tick_end' = "running"
               /\ UNCHANGED sweeps

\* The fetch of line 102 returns and the tick runs on to its next await
\* (the first channel.send) or to its end.
fetch_result(entries, result) ==
    /\ seen_before' = seen_entry_guids
    /\ repeat => entries = feed
    /\ start_refused' = FALSE
    /\ UNCHANGED <<DISCORD_CHANNEL_ID, repeat, ever_staged, attempts, outcomes>>
    /\ UNCHANGED parseVars
    /\ CASE result = "raise" ->
              \* feedparser.parse raised, or an entry without link or title
              \* raised AttributeError at lines 115-117, before any append
              /\ entries = feed
              /\ raise_out("raised_fetch")
              /\ UNCHANGED <<seen_entry_guids, seen_recorded, feed, new_entries_to_post, idx>>
         [] result = "bozo" -> parse_failed(entries)
         [] result = "no_channel" -> channel_missing(entries)
         [] result = "ok" -> process_entries(entries)

fetch_returns ==
    /\ pc = "fetching"
    /\ \E entries \in Feeds : \E result \in {"ok", "bozo", "no_channel", "raise"} :
           fetch_result(entries, result)

\* after the try statement of lines 144-156 for one entry: the next entry of
\* the for loop, or the end of the tick
next_entry ==
    IF idx < Len(new_entries_to_post)
    THEN /\ idx' = idx + 1
         /\ pc' = "sending"
         /\ UNCHANGED <<seen_entry_guids, tick_end, sweeps>>
    ELSE /\ idx' = idx
         /\ end_of_tick(seen_entry_guids)

\* `break` leaves the for loop
break_loop ==
    /\ idx' = idx
    /\ end_of_tick(seen_entry_guids)

\* a Forbidden handler without the break
on_forbidden_continue == next_entry

\* except discord.Forbidden, lines 152-154: log and break
on_forbidden == break_loop

\* an HTTPException handler that gives the loop up
on_http_break == break_loop

\* except discord.HTTPException, lines 155-156: log, the loop goes on
on_http == next_entry

\* channel.send(entry_to_post.link), line 145, completes
send_link(result) ==
    /\ pc = "sending"
    /\ attempts' = Append(attempts, sorted(new_entries_to_post)[idx])
    /\ outcomes' = Append(outcomes, result)
    /\ start_refused' = FALSE
    /\ UNCHANGED <<DISCORD_CHANNEL_ID, feed, new_entries_to_post, seen_before,
                   seen_recorded, repeat, ever_staged>>
    /\ UNCHANGED parseVars
    /\ CASE result = "ok" ->
              IF has_highest(parse_resource_values(entry_to_post))
              THEN /\ pc' = "sending_stat"
                   /\ UNCHANGED <<idx, seen_entry_guids, tick_end, sweeps>>
              ELSE next_entry
         [] result = "forbidden" -> on_forbidden
         [] result = "http" -> on_http
         [] result = "error" ->
              /\ raise_out("raised_send")
              /\ UNCHANGED <<idx, seen_entry_guids>>

\* channel.send(f"Highest value = ..."), line 149, completes
send_stat(result) ==
    /\ pc = "sending_stat"
    /\ outcomes' = [outcomes EXCEPT ![Len(outcomes)] = result]
    /\ start_refused' = FALSE
    /\ UNCHANGED <<DISCORD_CHANNEL_ID, feed, new_entries_to_post, seen_before,
                   seen_recorded, repeat, ever_staged, attempts>>
    /\ UNCHANGED parseVars
    /\ CASE result = "ok_stat" -> next_entry
         [] result = "stat_forbidden" -> on_forbidden
         [] result = "stat_http" -> on_http
         [] result = "stat_error" ->
              /\ raise_out("raised_send")
              /\ UNCHANGED <<idx, seen_entry_guids>>

-----------------------------------------------------------------------------
(* Specifications *)

NoEntry == [has_content |-> FALSE, content |-> <<>>]

InitSched ==
    /\ DISCORD_CHANNEL_ID \in {0, 1}
    /\ seen_entry_guids = <<>>
    /\ pc = "not_started"
    /\ feed = <<>>
    /\ new_entries_to_post = <<>>
    /\ idx = 0
    /\ seen_before = <<>>
    /\ seen_recorded = <<>>
    /\ attempts = <<>>
    /\ outcomes = <<>>
    /\ tick_end = "none"
    /\ repeat = FALSE
    /\ ever_staged = {}
    /\ sweeps = 0
    /\ start_refused = FALSE

Init ==
    /\ InitSched
    /\ entry = NoEntry
    /\ parsed = <<>>

Next ==
    \/ on_ready
    \/ next_iteration
    \/ fetch_returns
    \/ \E result \in {"ok", "forbidden", "http", "error"} : send_link(result)
    \/ \E result \in {"ok_stat", "stat_forbidden", "stat_http", "stat_error"} : send_stat(result)

Spec == Init /\ [][Next]_vars

\* parse_resource_values called on its own, on any entry of ParseEntries
InitParse ==
    /\ InitSched
    /\ DISCORD_CHANNEL_ID = 1
    /\ entry \in ParseEntries
    /\ parsed = <<>>

NextParse == CallParse /\ UNCHANGED schedVars

SpecParse == InitParse /\ [][NextParse]_vars

-----------------------------------------------------------------------------
(* Vocabulary of the properties *)

Ids(entries) == {identity(e) : e \in Range(entries)}

Min(a, b) == IF a < b THEN a ELSE b

\* the tick has passed lines 113-123 on the entries in feed
ReachedFilter ==
    \/ pc \in {"sending", "sending_stat"}
    \/ pc = "sleeping" /\ tick_end = "done"
    \/ pc = "failed" /\ tick_end = "raised_send"

\* the tick ran to line 163 and the task sleeps until the next one
TickDone == pc = "sleeping" /\ tick_end = "done"

\* outcomes of an attempt after which the link is in the channel
LinkSent == {"ok", "ok_stat", "stat_http", "stat_forbidden", "stat_error"}
Transient == {"http", "stat_http"}
Denied == {"forbidden", "stat_forbidden"}

\* positions of attempts whose link was delivered
Delivered == {i \in 1..Len(outcomes) : outcomes[i] \in LinkSent}

\* the feed entries whose title holds the target name in any letter case
TargetItems == {e \in Range(Items) : title_matches(e)}

\* those of the entries of a fetched feed, in feed order
Matching(entries) == SelectSeq(entries, LAMBDA e : e \in TargetItems)

-----------------------------------------------------------------------------
(* C10: for every content, parse_resource_values returns no stat exactly   *)
(* when the content has no stat-shaped token, and otherwise the code and   *)
(* value of the token with the greatest value, the first such token when   *)
(* several share it (also when every value is 0).                          *)

Tokens(e) == IF e.has_content THEN findall(e.content) ELSE <<>>

TokenValue(toks, i) == ToInt(toks[i].value_str)

FirstGreatest(toks) ==
    CHOOSE i \in 1..Len(toks) :
        /\ \A j \in 1..Len(toks) : TokenValue(toks, j) <= TokenValue(toks, i)
        /\ \A j \in 1..(i - 1) : TokenValue(toks, j) < TokenValue(toks, i)

C10_HighestToken ==
    parsed # <<>> =>
        LET toks == Tokens(entry)
            r == parsed[1]
        IN /\ (toks = <<>>) <=> (r.stat = NoneStat /\ r.value = NoneValue)
           /\ toks # <<>> =>
                 /\ r.stat = toks[FirstGreatest(toks)].stat
                 /\ r.value = TokenValue(toks, FirstGreatest(toks))

-----------------------------------------------------------------------------
(* C1: an item identity is staged at most once in a process lifetime: not  *)
(* by two entries of one fetch, and not by a tick after one that staged it. *)

C1_StagedAtMostOnce ==
    /\ \A i, j \in 1..Len(new_entries_to_post) :
           i # j => identity(new_entries_to_post[i]) # identity(new_entries_to_post[j])
    /\ \A i \in 1..Len(new_entries_to_post) :
           identity(new_entries_to_post[i]) \notin ever_staged

-----------------------------------------------------------------------------
(* C3: when a tick has run to its end on some feed content and the next    *)
(* tick fetches the same content, the second tick delivers nothing.        *)

C3_RepeatDeliversNothing == repeat => Delivered = {}

-----------------------------------------------------------------------------
(* C8: whenever the task sleeps between two ticks, the seen list holds at  *)
(* most MAX_SEEN_ENTRIES identities.                                       *)

C8_BoundedWhenIdle == pc = "sleeping" => Len(seen_entry_guids) <= MAX_SEEN_ENTRIES

-----------------------------------------------------------------------------
(* C2, as amended: on a cold start (empty seen list) whose first fetch     *)
(* returns n entries matching the target name, the run stages every one of *)
(* them, without a limit K, and delivers them all when no delivery fails;  *)
(* afterwards every fetched identity, matching or not, is in the seen list *)
(* provided the feed has at most MAX_SEEN_ENTRIES distinct identities.     *)

ColdStart == ReachedFilter /\ seen_before = <<>>

\* every attempt of the tick put its link in the channel and broke nothing off
AllSent == \A i \in 1..Len(outcomes) : outcomes[i] \in {"ok", "ok_stat", "stat_http"}

C2_ColdStartDeliversAll ==
    ColdStart =>
        /\ Range(new_entries_to_post) = Range(Matching(feed))
        /\ (TickDone /\ AllSent) =>
               /\ Delivered = 1..Len(new_entries_to_post)
               /\ Range(attempts) = 1..Len(new_entries_to_post)
        /\ (TickDone /\ Cardinality(Ids(feed)) <= MAX_SEEN_ENTRIES) =>
               Ids(feed) \subseteq Range(seen_entry_guids)

C2_Witness ==
    /\ ColdStart /\ TickDone /\ AllSent
    /\ Len(Matching(feed)) > K
    /\ Cardinality(Delivered) = Len(Matching(feed))
    /\ Ids(feed) \subseteq Range(seen_entry_guids)

\* C2 as first stated: the cold-start run delivers exactly min(n, K) entries,
\* the most recent ones, and every fetched identity is in the seen list.
C2_ColdStartBatch ==
    (ColdStart /\ TickDone /\ AllSent) =>
        /\ Cardinality(Delivered) = Min(Len(Matching(feed)), K)
        /\ \A i \in Delivered : \A j \in 1..Len(new_entries_to_post) :
               j \notin {attempts[d] : d \in Delivered} =>
                   get_sort_key(new_entries_to_post[j])
                       <= get_sort_key(new_entries_to_post[attempts[i]])
        /\ Ids(feed) \subseteq Range(seen_entry_guids)

-----------------------------------------------------------------------------
(* C4: in every tick that reaches the filtering step, the identity of      *)
(* every fetched entry is recorded in the seen list, whatever its title;   *)
(* and an entry is staged or sent only if its title holds the target name  *)
(* and its identity was not in the seen list when it was fetched.          *)

C4_SeenOnNonMatch ==
    /\ ReachedFilter => Ids(feed) \subseteq Range(seen_recorded)
    /\ \A i \in 1..Len(new_entries_to_post) :
           /\ new_entries_to_post[i] \in TargetItems
           /\ identity(new_entries_to_post[i]) \notin Range(seen_before)
    /\ \A i \in 1..Len(attempts) : new_entries_to_post[attempts[i]] \in TargetItems

C4_Witness ==
    /\ TickDone
    /\ Delivered # {}
    /\ \E e \in Range(feed) :
           /\ e \notin TargetItems
           /\ identity(e) \notin Range(seen_before)
           /\ identity(e) \in Range(seen_entry_guids)

-----------------------------------------------------------------------------
(* C5: within one tick the links are sent in ascending order of            *)
(* publication time; an entry without a usable publication time goes       *)
(* before every dated one and is not skipped; entries of equal time keep   *)
(* the order in which the feed listed them.                                *)

\* the time struct the entry is dated by, NoTime when it has none
PublishedAt(e) ==
    IF e.published_parsed # NoTime THEN e.published_parsed ELSE e.updated_parsed

Undated(e) == PublishedAt(e) \in {NoTime, BadTime}

\* a is to be sent before b by date alone
Earlier(a, b) ==
    \/ Undated(a) /\ ~Undated(b)
    \/ ~Undated(a) /\ ~Undated(b) /\ PublishedAt(a) < PublishedAt(b)

SameTime(a, b) ==
    \/ Undated(a) /\ Undated(b)
    \/ ~Undated(a) /\ ~Undated(b) /\ PublishedAt(a) = PublishedAt(b)

C5_DeliveryOrder ==
    /\ \A i, j \in 1..Len(attempts) :
           i < j =>
               LET a == new_entries_to_post[attempts[i]]
                   b == new_entries_to_post[attempts[j]]
               IN \/ Earlier(a, b)
                  \/ SameTime(a, b) /\ attempts[i] < attempts[j]
    /\ (TickDone /\ \A i \in 1..Len(outcomes) : outcomes[i] \notin Denied) =>
           Range(attempts) = 1..Len(new_entries_to_post)

C5_Witness ==
    /\ TickDone
    /\ Len(attempts) = 3
    /\ attempts # <<1, 2, 3>>
    /\ Undated(new_entries_to_post[attempts[1]])
    /\ ~Undated(new_entries_to_post[attempts[2]])
    /\ SameTime(new_entries_to_post[attempts[2]], new_entries_to_post[attempts[3]])

-----------------------------------------------------------------------------
(* C6: when the delivery of one entry fails with discord.HTTPException,    *)
(* the next entry in posting order is attempted all the same, and a tick   *)
(* in which no delivery is refused with Forbidden attempts every staged    *)
(* entry.                                                                  *)

C6_TransientFailureGoesOn ==
    /\ \A i \in 1..Len(outcomes) :
           (outcomes[i] \in Transient /\ i < Len(new_entries_to_post)) =>
               \/ Len(attempts) > i
               \/ pc = "sending" /\ idx = i + 1
    /\ (TickDone /\ \A i \in 1..Len(outcomes) : outcomes[i] \notin Denied) =>
           Len(attempts) = Len(new_entries_to_post)

C6_Witness ==
    /\ TickDone
    /\ Len(attempts) >= 2
    /\ outcomes[1] = "http"
    /\ outcomes[2] \in LinkSent

-----------------------------------------------------------------------------
(* C7: when a delivery fails with discord.Forbidden, no further delivery   *)
(* is attempted in that tick, and the tick still runs to its end: the seen *)
(* list is what the tick recorded, without rollback, cut by the            *)
(* end-of-tick trimming to its newest MAX_SEEN_ENTRIES identities.         *)

\* s is the list r cut to its newest MAX_SEEN_ENTRIES elements
NewestOf(s, r) ==
    /\ Len(s) = Min(Len(r), MAX_SEEN_ENTRIES)
    /\ \A i \in 1..Len(s) : s[i] = r[Len(r) - Len(s) + i]

C7_ForbiddenEndsDeliveries ==
    \A i \in 1..Len(outcomes) :
        outcomes[i] \in Denied =>
            /\ i = Len(outcomes)
            /\ Len(attempts) = i
            /\ TickDone
            /\ NewestOf(seen_entry_guids, seen_recorded)
            /\ Ids(new_entries_to_post) \subseteq Range(seen_recorded)

C7_Witness ==
    /\ TickDone
    /\ outcomes = <<"forbidden">>
    /\ Len(new_entries_to_post) >= 2
    /\ Len(seen_recorded) > MAX_SEEN_ENTRIES
    /\ Len(seen_entry_guids) = MAX_SEEN_ENTRIES

-----------------------------------------------------------------------------
(* C9: eviction from the seen list is first-in-first-out by insertion and  *)
(* does not depend on lookups. Every step keeps the relative order of the  *)
(* identities that stay, puts new identities after them, and evicts an     *)
(* identity only together with everything inserted before it; a tick that  *)
(* runs to its end leaves the newest MAX_SEEN_ENTRIES of what was          *)
(* recorded, so that after MAX_SEEN_ENTRIES + 1 recordings exactly the     *)
(* first-recorded identity is absent.                                      *)

Pos(s, a) == CHOOSE i \in 1..Len(s) : s[i] = a

FifoStep ==
    LET old == seen_entry_guids
        new == seen_entry_guids'
        kept == Range(old) \cap Range(new)
    IN \/ new = old
       \/ /\ \A a, b \in kept : Pos(old, a) < Pos(old, b) => Pos(new, a) < Pos(new, b)
          /\ \A a \in Range(old) \ kept : \A b \in Range(old) :
                 Pos(old, b) < Pos(old, a) => b \notin kept
          /\ \A a \in Range(new) \ kept : \A b \in kept : Pos(new, b) < Pos(new, a)

OldestEvicted ==
    TickDone =>
        /\ NewestOf(seen_entry_guids, seen_recorded)
        /\ Len(seen_recorded) = MAX_SEEN_ENTRIES + 1 =>
               /\ seen_recorded[1] \notin Range(seen_entry_guids)
               /\ \A i \in 2..Len(seen_recorded) :
                      seen_recorded[i] \in Range(seen_entry_guids)

C9_FifoEviction == []OldestEvicted /\ [][FifoStep]_vars

\* MAX_SEEN_ENTRIES + 1 identities were recorded, one of them fetched again
\* after it was recorded, and the first-recorded one is gone
C9_Witness ==
    /\ TickDone
    /\ Len(seen_before) = MAX_SEEN_ENTRIES
    /\ Len(seen_recorded) = MAX_SEEN_ENTRIES + 1
    /\ seen_before[1] \in Ids(feed)
    /\ seen_before[1] \notin Range(seen_entry_guids)
    /\ Len(seen_entry_guids) = MAX_SEEN_ENTRIES

-----------------------------------------------------------------------------
(* C11: no failure inside a tick stops the scheduler: whatever fails in a  *)
(* tick (fetch, parse, delivery, or an unexpected exception), the loop     *)
(* task stays alive, so that the next scheduled tick is executed.          *)

C11_FailureNeverStopsLoop == pc # "failed"

-----------------------------------------------------------------------------
(* C14: in every reachable state the seen list holds no identity twice,    *)
(* also after a fetch whose entries repeat an identity and after trims.    *)

C14_NoDuplicateSeen ==
    \A i, j \in 1..Len(seen_entry_guids) :
        i # j => seen_entry_guids[i] # seen_entry_guids[j]

C14_Witness ==
    /\ TickDone
    /\ \E i, j \in 1..Len(feed) : i # j /\ identity(feed[i]) = identity(feed[j])
    /\ Len(seen_recorded) > MAX_SEEN_ENTRIES
    /\ Len(seen_entry_guids) = MAX_SEEN_ENTRIES

-----------------------------------------------------------------------------
(* C17: after a tick has run to its end on a feed of at most               *)
(* MAX_SEEN_ENTRIES distinct identities, every identity of that feed is in *)
(* the seen list, whatever the list held before and whatever the order of  *)
(* the feed.                                                               *)

C17_FeedStaysSeen ==
    (TickDone /\ Cardinality(Ids(feed)) <= MAX_SEEN_ENTRIES) =>
        Ids(feed) \subseteq Range(seen_entry_guids)

-----------------------------------------------------------------------------
(* C12, as amended: the program has one configured source, RSS_FEED_URL.   *)
(* A fetch or parse failure of it (feed.bozo) aborts the tick: nothing is  *)
(* staged, recorded or delivered in that tick. It does not stop the        *)
(* scheduler: the task goes to sleep and the next tick fetches again.      *)

\* the tick ended at the return of line 106
TickAborted == tick_end = "bozo"

-----------------------------------------------------------------------------
(* C15: when the parser reports a malformed feed (feed.bozo) from which    *)
(* entries were recovered all the same, the tick processes them: every     *)
(* recovered entry is recorded as seen and the new matching ones are       *)
(* staged. Only a failed fetch without entries is skipped.                 *)

C15_RecoveredEntriesProcessed ==
    (pc = "sleeping" /\ tick_end = "bozo" /\ feed # <<>>) =>
        /\ Ids(feed) \subseteq Range(seen_recorded)
        /\ Range(new_entries_to_post) =
               {e \in Range(feed) : e \in TargetItems /\ identity(e) \notin Range(seen_before)}

-----------------------------------------------------------------------------
(* C18: a tick that ends early, on feed.bozo or on a channel that cannot   *)
(* be resolved, leaves the seen list exactly as it was and attempts no     *)
(* delivery, so that the new matching entries of that feed are still       *)
(* unseen, hence staged by a later tick that fetches them.                 *)

EndedEarly == pc = "sleeping" /\ tick_end \in {"bozo", "no_channel"}

EarlyReturnStep ==
    (pc = "fetching" /\ EndedEarly') =>
        /\ seen_entry_guids' = seen_entry_guids
        /\ attempts' = <<>>
        /\ new_entries_to_post' = <<>>
        /\ \A e \in Range(feed') :
               (e \in TargetItems /\ identity(e) \notin Range(seen_entry_guids)) =>
                   identity(e) \notin Range(seen_entry_guids')

C18_EarlyReturnLeavesSeen == [][EarlyReturnStep]_vars

C18_Witness ==
    /\ EndedEarly
    /\ tick_end = "no_channel"
    /\ seen_entry_guids # <<>>
    /\ \E e \in Range(feed) : e \in TargetItems /\ identity(e) \notin Range(seen_entry_guids)

-----------------------------------------------------------------------------
(* C13: sweeps never overlap. At no time are two executions of             *)
(* fetch_rss_feed_task in progress, whether the running one is suspended   *)
(* at its fetch or at a delivery, and whether or not on_ready fires again  *)
(* meanwhile; while the task is between two sweeps none is in progress.    *)

InSweep == pc \in {"fetching", "sending", "sending_stat"}

C13_SweepsNeverOverlap ==
    /\ sweeps <= 1
    /\ InSweep <=> sweeps = 1

\* on_ready has just fired while the sweep of a later tick was suspended at
\* its fetch
C13_Witness ==
    /\ start_refused
    /\ pc = "fetching"
    /\ tick_end = "running"
    /\ seen_entry_guids # <<>>
    /\ sweeps = 1

-----------------------------------------------------------------------------
(* C19: within a tick, recording precedes delivery. From the first         *)
(* delivery attempt on, every identity of the fetched feed is in the seen  *)
(* list, which is not trimmed before the deliveries are over. A candidate  *)
(* whose link was not delivered (its send failed, or it was abandoned      *)
(* after discord.Forbidden) is therefore recorded; when the tick ends it   *)
(* is still in the seen list, hence not staged by the next tick, exactly   *)
(* when fewer than MAX_SEEN_ENTRIES identities were recorded after it. A   *)
(* sweep that dies in a delivery trims nothing.                            *)

\* positions in new_entries_to_post whose link did not reach the channel
Undelivered ==
    {i \in 1..Len(new_entries_to_post) :
        \A j \in 1..Len(attempts) : attempts[j] = i => outcomes[j] \notin LinkSent}

\* the test of line 117 would not stage the candidate again
StillSeen(i) == identity(new_entries_to_post[i]) \in Range(seen_entry_guids)

-----------------------------------------------------------------------------
(* C16: parse_resource_values reads the text of the first non-empty field  *)
(* among content, summary and description, in that order: an entry whose   *)
(* content is absent or empty and whose summary, or failing that whose     *)
(* description, holds a stat-shaped token yields the highest stat of that  *)
(* field, not the no-stat result.                                          *)

C16_FallbackFields ==
    (parsed # <<>> /\ (~entry.has_content \/ entry.content = <<>>)) =>
        LET text == IF entry.summary # <<>> THEN entry.summary ELSE entry.description
            toks == findall(text)
            r == parsed[1]
        IN toks # <<>> =>
               /\ r.stat = toks[FirstGreatest(toks)].stat
               /\ r.value = TokenValue(toks, FirstGreatest(toks))

====
